---- MODULE Spec2Model ----
(***************************************************************************)
(* A model of orbax/checkpoint/type_handlers.py: the process-wide type     *)
(* registry (_TYPE_REGISTRY, register_type_handler, get_type_handler) and  *)
(* the TypeHandler implementations (NumpyHandler, ScalarHandler,           *)
(* ArrayHandler) running as coroutines against the TensorStore backend.    *)
(***************************************************************************)
EXTENDS Integers, Sequences, FiniteSets, TLC

VARIABLES
    registry,     \* _TYPE_REGISTRY: sequence of [func, handler]
    jax_array,    \* jax.config.jax_array, read by the last default predicate
    last,         \* the most recent registry call, its arguments and its outcome
    leaf,         \* per leaf: the handler and value param_info was called with
    info,         \* per leaf: the ParamInfo object the caller holds (mutable)
    made,         \* per leaf: the ParamInfo as param_info returned it
    call,         \* per leaf: the running or finished handler coroutine
    backend,      \* per leaf: TensorStore's open and read issued by the call
    writes,       \* TensorStore writes issued so far, with their two stages
    store,        \* per leaf path: the array committed to storage
    ncalls,       \* handler calls started so far
    global_value, \* the sharded array being saved: its element at each index
    sharding,     \* the sharded array's layout: the worker holding each index
    worker,       \* per worker: its ArrayHandler.serialize call on the array
    shard_writes, \* the shard writes issued to the array's path so far
    global_store  \* the array committed at the sharded array's path

regVars == <<registry, jax_array, last>>

ioVars == <<leaf, info, made, call, backend, writes, store, ncalls>>

shardVars == <<global_value, sharding, worker, shard_writes, global_store>>

(***************************************************************************)
(* Bounds                                                                  *)
(***************************************************************************)
\* number of register_type_handler calls that may append an entry
MaxRegistered == 2

\* number of serialize / deserialize calls started in one run
MaxCalls == 2

\* array elements range over 0..MaxElem
MaxElem == 1

\* number of elements of the sharded array
ShardLen == 2

None == "None"

(***************************************************************************)
(* Types and the issubclass relation                                       *)
(***************************************************************************)
Types ==
    {"object", "int", "bool", "float", "np.number", "np.float64",
     "np.ndarray", "DeviceArray", "GlobalDeviceArray", "jax.Array",
     "str", "MyStr"}

\* the types register_type_handler is called with
RegTypes == {"bool", "str", "MyStr", "object"}

\* direct base classes of each type
Bases(ty) ==
    CASE ty = "object"     -> {}
      [] ty = "bool"       -> {"int"}
      [] ty = "np.float64" -> {"float", "np.number"}
      [] ty = "MyStr"      -> {"str"}
      [] OTHER             -> {"object"}

RECURSIVE Mro(_)
\* a class together with all its ancestors
Mro(ty) == {ty} \cup UNION {Mro(b) : b \in Bases(ty)}

\* issubclass(ty, base)
IsSubclass(ty, base) == base \in Mro(ty)

(***************************************************************************)
(* Handlers and predicates                                                 *)
(***************************************************************************)
Handler(cls, id) == [cls |-> cls, id |-> id]

\* stands for Python's None where a handler is expected
NoHandler == Handler("None", 0)

\* handler instances a caller may pass to register_type_handler
UserHandlers == {Handler("UserHandler", 8), Handler("UserHandler", 9)}

\* lambda t: issubclass(t, base), optionally "and jax.config.jax_array"
SubclassFunc(base, flag) == [kind |-> "issubclass", base |-> base, flag |-> flag, accepts |-> {}]

\* a caller-supplied func, given by the set of types it returns True for
CustomFunc(S) == [kind |-> "custom", base |-> None, flag |-> FALSE, accepts |-> S]

\* func = None: the argument's default
NoFunc == [kind |-> "None", base |-> None, flag |-> FALSE, accepts |-> {}]

CustomFuncs == {CustomFunc({"MyStr", "np.ndarray"})}

\* func(ty)
Accepts(func, ty, flagValue) ==
    IF func.kind = "issubclass"
    THEN IsSubclass(ty, func.base) /\ (func.flag => flagValue)
    ELSE ty \in func.accepts

Entry(func, handler) == [func |-> func, handler |-> handler]

DefaultRegistry ==
    << Entry(SubclassFunc("int", FALSE), Handler("ScalarHandler", 1)),
       Entry(SubclassFunc("float", FALSE), Handler("ScalarHandler", 2)),
       Entry(SubclassFunc("np.number", FALSE), Handler("ScalarHandler", 3)),
       Entry(SubclassFunc("np.ndarray", FALSE), Handler("NumpyHandler", 4)),
       Entry(SubclassFunc("DeviceArray", FALSE), Handler("NumpyHandler", 5)),
       Entry(SubclassFunc("GlobalDeviceArray", FALSE), Handler("ArrayHandler", 6)),
       Entry(SubclassFunc("jax.Array", TRUE), Handler("ArrayHandler", 7)) >>

(***************************************************************************)
(* get_type_handler                                                        *)
(***************************************************************************)
RECURSIVE ScanLast(_, _, _, _)
\* get_type_handler gone wrong: the newest matching entry wins instead of the
\* earliest
ScanLast(reg, i, ty, flagValue) ==
    IF i > Len(reg) THEN NoHandler
    ELSE LET later == ScanLast(reg, i + 1, ty, flagValue) IN
         IF later # NoHandler THEN later
         ELSE IF Accepts(reg[i].func, ty, flagValue) THEN reg[i].handler
         ELSE NoHandler

RECURSIVE ScanOrDefault(_, _, _, _)
\* get_type_handler gone wrong: a scan that finds nothing falls back to the
\* first entry's handler instead of raising
ScanOrDefault(reg, i, ty, flagValue) ==
    IF i > Len(reg) THEN reg[1].handler
    ELSE IF Accepts(reg[i].func, ty, flagValue) THEN reg[i].handler
    ELSE ScanOrDefault(reg, i + 1, ty, flagValue)

RECURSIVE ScanFrom(_, _, _, _)
\* for func, handler in _TYPE_REGISTRY[i:]: if func(ty): return handler
ScanFrom(reg, i, ty, flagValue) ==
    IF i > Len(reg) THEN NoHandler
    ELSE IF Accepts(reg[i].func, ty, flagValue) THEN reg[i].handler
    ELSE ScanFrom(reg, i + 1, ty, flagValue)

\* the handler returned, or NoHandler when the call raises ValueError
GetTypeHandler(reg, ty, flagValue) == ScanFrom(reg, 1, ty, flagValue)

NoCall ==
    [op |-> "none", ty |-> None, func |-> NoFunc, override |-> FALSE,
     outcome |-> None, handler |-> NoHandler, existing |-> NoHandler, before |-> << >>]

\* get_type_handler(ty)
Resolve(ty) ==
    LET h == GetTypeHandler(registry, ty, jax_array) IN
    /\ last' = [op |-> "resolve", ty |-> ty, func |-> NoFunc, override |-> FALSE,
                outcome |-> IF h = NoHandler THEN "ValueError" ELSE "ok",
                handler |-> h, existing |-> NoHandler, before |-> registry]
    /\ UNCHANGED <<registry, jax_array>>
    /\ UNCHANGED <<ioVars, shardVars>>

(***************************************************************************)
(* register_type_handler                                                   *)
(***************************************************************************)
\* register_type_handler gone wrong: the entry is appended before the
\* duplicate check raises
RegisterAppendFirst(reg, ty, handler, func, override, flagValue) ==
    LET f == IF func = NoFunc THEN SubclassFunc(ty, FALSE) ELSE func
        existing_handler == GetTypeHandler(reg, ty, flagValue)
    IN  [outcome |-> IF existing_handler # NoHandler /\ ~override THEN "ValueError" ELSE "ok",
         registry |-> Append(reg, Entry(f, handler))]

\* register_type_handler gone wrong: override=True replaces the handler of the
\* entry that resolves for ty instead of appending
RegisterReplace(reg, ty, handler, func, override, flagValue) ==
    LET f == IF func = NoFunc THEN SubclassFunc(ty, FALSE) ELSE func
        existing_handler == GetTypeHandler(reg, ty, flagValue)
        hit == {i \in 1..Len(reg) : Accepts(reg[i].func, ty, flagValue)}
        first == CHOOSE i \in hit : \A j \in hit : i <= j
    IN  IF existing_handler # NoHandler /\ ~override
        THEN [outcome |-> "ValueError", registry |-> reg]
        ELSE IF existing_handler # NoHandler
        THEN [outcome |-> "ok", registry |-> [reg EXCEPT ![first].handler = handler]]
        ELSE [outcome |-> "ok", registry |-> Append(reg, Entry(f, handler))]

\* register_type_handler gone wrong: the new entry is inserted at the front
RegisterPrepend(reg, ty, handler, func, override, flagValue) ==
    LET f == IF func = NoFunc THEN SubclassFunc(ty, FALSE) ELSE func
        existing_handler == GetTypeHandler(reg, ty, flagValue)
    IN  IF existing_handler # NoHandler /\ ~override
        THEN [outcome |-> "ValueError", registry |-> reg]
        ELSE [outcome |-> "ok", registry |-> <<Entry(f, handler)>> \o reg]

\* register_type_handler gone wrong: func is stored as passed, the default
\* "lambda t: issubclass(t, ty)" is never put in its place
RegisterNoDefault(reg, ty, handler, func, override, flagValue) ==
    LET existing_handler == GetTypeHandler(reg, ty, flagValue)
    IN  IF existing_handler # NoHandler /\ ~override
        THEN [outcome |-> "ValueError", registry |-> reg]
        ELSE [outcome |-> "ok", registry |-> Append(reg, Entry(func, handler))]

\* the registry after register_type_handler(ty, handler, func, override)
RegisterResult(reg, ty, handler, func, override, flagValue) ==
    LET f == IF func = NoFunc THEN SubclassFunc(ty, FALSE) ELSE func
        existing_handler == GetTypeHandler(reg, ty, flagValue)
    IN  IF existing_handler # NoHandler /\ ~override
        THEN [outcome |-> "ValueError", registry |-> reg]
        ELSE [outcome |-> "ok", registry |-> Append(reg, Entry(f, handler))]

Register(ty, handler, func, override) ==
    LET r == RegisterResult(registry, ty, handler, func, override, jax_array) IN
    /\ Len(registry) < Len(DefaultRegistry) + MaxRegistered
    /\ registry' = r.registry
    /\ last' = [op |-> "register", ty |-> ty, func |-> func, override |-> override,
                outcome |-> r.outcome, handler |-> handler,
                existing |-> GetTypeHandler(registry, ty, jax_array),
                before |-> registry]
    /\ UNCHANGED jax_array
    /\ UNCHANGED <<ioVars, shardVars>>

(***************************************************************************)
(* Values, dtypes and the descriptor                                       *)
(***************************************************************************)
\* the independent leaves of the tree being saved; a leaf's path is its name
Leaves == {"a", "b"}

DTypes == {"int64", "float64", "float32", "bfloat16"}

\* dtypes a caller asks a cast to
CastDTypes == {"float32", "bfloat16"}

Elems == 0..MaxElem

Value(kind, dtype, shape, elem) == [kind |-> kind, dtype |-> dtype, shape |-> shape, elem |-> elem]

NoValue == Value("None", None, << >>, 0)

\* the Python ints and floats, 1-element numpy arrays and sharded arrays a
\* caller saves
PyInts == {Value("int", None, << >>, e) : e \in Elems}
PyFloats == {Value("float", None, << >>, e) : e \in Elems}
PyScalars == PyInts \cup PyFloats
NdArrays == {Value("np.ndarray", "float32", <<1>>, e) : e \in Elems}
GlobalArrays == {Value("GlobalDeviceArray", "float32", <<1>>, e) : e \in Elems}

\* np.asarray(value)
AsArray(v) ==
    CASE v.kind = "int"   -> Value("np.ndarray", "int64", << >>, v.elem)
      [] v.kind = "float" -> Value("np.ndarray", "float64", << >>, v.elem)
      [] OTHER            -> v

\* result.item()
Item(v) == Value(IF v.dtype = "int64" THEN "int" ELSE "float", None, << >>, v.elem)

\* the element a cast to dtype d keeps: bfloat16 drops the lowest bit
CastElem(e, d) == IF d = "bfloat16" THEN e - (e % 2) ELSE e

\* serialization.get_tensorstore_spec(path) with tspec['metadata'] set
BaseTspec(path, shape) ==
    [driver |-> "zarr", path |-> path, dtype |-> None,
     metadata |-> [compressor |-> "gzip", shape |-> shape, chunks |-> shape]]

CastTspec(base, dtype) == [driver |-> "cast", base |-> base, dtype |-> dtype]

ParamInfoRec(name, tspec) == [name |-> name, aggregate |-> None, tspec |-> tspec]

NoInfo == [name |-> None, aggregate |-> None, tspec |-> BaseTspec(None, << >>)]

\* the ParamInfo that handler.param_info(directory, name, value) returns
ParamInfoOf(handler, name, value) ==
    IF handler = "ScalarHandler"
    THEN ParamInfoRec(name, BaseTspec(name, AsArray(value).shape))
    ELSE ParamInfoRec(name, BaseTspec(name, value.shape))

(***************************************************************************)
(* SaveArgs, RestoreArgs, ArrayRestoreArgs                                 *)
(***************************************************************************)
SaveArgs(dtype) == [given |-> TRUE, aggregate |-> FALSE, dtype |-> dtype]

\* args = None
NoSaveArgs == [given |-> FALSE, aggregate |-> FALSE, dtype |-> None]

SaveArgsSet == {NoSaveArgs} \cup {SaveArgs(d) : d \in {None} \cup CastDTypes}

RestoreArgs(lazy, dtype) ==
    [variant |-> "RestoreArgs", lazy |-> lazy, dtype |-> dtype,
     mesh |-> "absent", mesh_axes |-> "absent", global_shape |-> "absent"]

ArrayRestoreArgs(lazy, dtype, mesh, mesh_axes, global_shape) ==
    [variant |-> "ArrayRestoreArgs", lazy |-> lazy, dtype |-> dtype,
     mesh |-> mesh, mesh_axes |-> mesh_axes, global_shape |-> global_shape]

\* args = None
NoRestoreArgs ==
    [variant |-> "None", lazy |-> FALSE, dtype |-> None,
     mesh |-> "absent", mesh_axes |-> "absent", global_shape |-> "absent"]

BaseRestoreArgsSet ==
    {NoRestoreArgs} \cup {RestoreArgs(z, d) : z \in BOOLEAN, d \in {None, "bfloat16"}}

\* RestoreArgs(dtype=T) for every dtype a caller casts to
CastRestoreArgsSet == {RestoreArgs(FALSE, d) : d \in CastDTypes}

ArrayRestoreArgsSet ==
    {ArrayRestoreArgs(z, d, m, x, g) :
        z \in BOOLEAN, d \in {None, "bfloat16"}, m \in {None, "mesh"},
        x \in {None, "axes"}, g \in {None, "shape"}}

(***************************************************************************)
(* The cast envelopes                                                      *)
(***************************************************************************)
\* _get_cast_tspec_serialize gone wrong: args.dtype is ignored, the stored
\* dtype is always the value's
CastBaseSerializeSource(tspec, value, args) == [tspec EXCEPT !.dtype = value.dtype]

\* info.tspec after _get_cast_tspec_serialize: tspec['base'] is the caller's
\* dict itself, so the assignment to tspec['base']['dtype'] lands in it
CastBaseSerialize(tspec, value, args) ==
    [tspec EXCEPT !.dtype = IF args.dtype = None THEN value.dtype ELSE args.dtype]

\* _get_cast_tspec_serialize gone wrong: the two dtypes change places, the
\* value's dtype goes inside and the requested dtype outside
get_cast_tspec_serialize_swapped(tspec, value, args) ==
    CastTspec([tspec EXCEPT !.dtype = value.dtype],
              IF args.dtype = None THEN value.dtype ELSE args.dtype)

\* _get_cast_tspec_serialize(tspec, value, args)
get_cast_tspec_serialize(tspec, value, args) ==
    CastTspec(CastBaseSerialize(tspec, value, args), value.dtype)

\* _get_cast_tspec_deserialize gone wrong: the envelope is built whether or not
\* a dtype was asked for
get_cast_tspec_deserialize_always(tspec, args) == CastTspec(tspec, args.dtype)

\* _get_cast_tspec_deserialize(tspec, args)
get_cast_tspec_deserialize(tspec, args) ==
    IF args.dtype # None THEN CastTspec(tspec, args.dtype) ELSE tspec

(***************************************************************************)
(* The TensorStore backend                                                 *)
(***************************************************************************)
Stored(dtype, shape, elem) == [dtype |-> dtype, shape |-> shape, elem |-> elem]

\* nothing at the path
NoArray == Stored(None, << >>, 0)

NoBackend == [open |-> "none", read |-> "none", readval |-> NoValue]

\* the zarr spec inside a spec handed to ts.open
RawSpec(tspec) == IF tspec.driver = "cast" THEN tspec.base ELSE tspec

\* whether ts.open(spec, create=True, open=True) can succeed: an existing
\* array must have the spec's dtype and shape
CanOpenForWrite(tspec, arr) ==
    \/ arr = NoArray
    \/ /\ arr.dtype = RawSpec(tspec).dtype
       /\ arr.shape = RawSpec(tspec).metadata.shape

\* whether ts.open(spec, open=True) can succeed: the array exists and agrees
\* with the dtype and shape constraints of the spec
CanOpenForRead(tspec, arr) ==
    /\ arr # NoArray
    /\ RawSpec(tspec).dtype \in {None, arr.dtype}
    /\ arr.shape = RawSpec(tspec).metadata.shape

\* the array at the path once ts.open(create=True) succeeded: created with
\* the fill value when it did not exist
Created(tspec, arr) ==
    IF arr = NoArray
    THEN Stored(RawSpec(tspec).dtype, RawSpec(tspec).metadata.shape, 0)
    ELSE arr

\* what t.read() yields for the array under the spec it was opened with
ReadValue(tspec, arr) ==
    LET d == IF tspec.driver = "cast" THEN tspec.dtype ELSE arr.dtype IN
    Value("np.ndarray", d, arr.shape, CastElem(arr.elem, d))

Write(l, elem) == [leaf |-> l, elem |-> elem, copy |-> "pending", commit |-> "pending"]

(***************************************************************************)
(* Handler calls                                                           *)
(***************************************************************************)
Handlers == {"NumpyHandler", "ScalarHandler", "ArrayHandler"}

\* no serialize call made with the descriptor yet
NoSaved == [committed |-> FALSE, dtype |-> None]

\* a leaf's call record: the coroutine's arguments, its position, what it
\* built and issued, and what it returned or raised; saved is history, the
\* latest serialize call made with the same ParamInfo before this call
Idle ==
    [handler |-> None, op |-> "none", pc |-> "idle", save |-> NoSaveArgs,
     restore |-> NoRestoreArgs, value |-> NoValue, tspec |-> BaseTspec(None, << >>),
     write |-> 0, commits |-> << >>, result |-> NoValue, error |-> None,
     saved |-> NoSaved]

\* the values a handler's param_info and serialize are called with
ValuesOf(handler) ==
    CASE handler = "ScalarHandler" -> PyScalars
      [] handler = "NumpyHandler"  -> NdArrays
      [] OTHER                     -> GlobalArrays

\* the caller may start a call on a leaf once the previous one has finished
\* and the commit handles it returned have been awaited
Quiescent(l) ==
    /\ call[l].pc \in {"idle", "returned", "raised"}
    /\ \A i \in 1..Len(call[l].commits) : writes[call[l].commits[i]].commit # "pending"

\* the latest serialize call made with leaf l's ParamInfo, as the next call on
\* the leaf finds it: the dtype its args asked for, and whether the commit
\* handle it returned completed successfully
SavedBy(l) ==
    IF call[l].op = "serialize"
    THEN [committed |-> IF call[l].commits = << >> THEN FALSE
                        ELSE writes[call[l].commits[1]].commit = "done",
          dtype |-> call[l].save.dtype]
    ELSE call[l].saved

\* handler.param_info(directory, name, value)
ParamInfo(l, handler, value) ==
    /\ Quiescent(l)
    /\ ncalls < MaxCalls
    /\ value \in ValuesOf(handler)
    /\ leaf' = [leaf EXCEPT ![l] = [handler |-> handler, value |-> value]]
    /\ info' = [info EXCEPT ![l] = ParamInfoOf(handler, l, value)]
    /\ made' = [made EXCEPT ![l] = ParamInfoOf(handler, l, value)]
    /\ call' = [call EXCEPT ![l] = Idle]
    /\ backend' = [backend EXCEPT ![l] = NoBackend]
    /\ UNCHANGED <<writes, store, ncalls>>
    /\ UNCHANGED <<regVars, shardVars>>

\* NumpyHandler.serialize / ScalarHandler.serialize / ArrayHandler.serialize up
\* to the first suspension: the cast spec is built and the open is issued. The
\* caller passes the value and the ParamInfo it called param_info with.
SerializeCall(l, args) ==
    LET v == IF leaf[l].handler = "ScalarHandler" THEN AsArray(leaf[l].value)
             ELSE leaf[l].value
        a == IF args.given THEN args ELSE SaveArgs(None)
    IN  /\ Quiescent(l)
        /\ ncalls < MaxCalls
        /\ info[l] # NoInfo
        /\ ncalls' = ncalls + 1
        /\ info' = [info EXCEPT ![l].tspec = CastBaseSerialize(info[l].tspec, v, a)]
        /\ call' = [call EXCEPT ![l] =
                      [Idle EXCEPT !.handler = leaf[l].handler, !.op = "serialize",
                                   !.pc = "open", !.save = args, !.value = v,
                                   !.saved = SavedBy(l),
                                   !.tspec = get_cast_tspec_serialize(info[l].tspec, v, a)]]
        /\ backend' = [backend EXCEPT ![l] = [NoBackend EXCEPT !.open = "pending"]]
        /\ UNCHANGED <<leaf, made, writes, store>>
        /\ UNCHANGED <<regVars, shardVars>>

\* the argument check gone wrong: 'and' for 'or', so that only a missing mesh
\* together with a missing mesh_axes is rejected
ArrayArgsErrorBoth(args) ==
    IF args.variant = "None" THEN "ValueError"
    ELSE IF args.mesh = "absent" \/ args.mesh_axes = "absent" THEN "AttributeError"
    ELSE IF args.mesh = None /\ args.mesh_axes = None THEN "ValueError"
    ELSE None

\* the exception ArrayHandler.deserialize raises for its args, or None
ArrayArgsError(args) ==
    IF args.variant = "None" THEN "ValueError"
    ELSE IF args.mesh = "absent" \/ args.mesh_axes = "absent" THEN "AttributeError"
    ELSE IF args.mesh = None \/ args.mesh_axes = None THEN "ValueError"
    ELSE None

\* the args a caller passes to a handler's deserialize
RestoreArgsOf(handler) ==
    IF handler = "ArrayHandler"
    THEN BaseRestoreArgsSet \cup CastRestoreArgsSet \cup ArrayRestoreArgsSet
    ELSE BaseRestoreArgsSet \cup CastRestoreArgsSet

\* deserialize up to the first suspension: ArrayHandler validates its args,
\* then the spec is built and the open is issued
DeserializeCall(l, handler, args) ==
    LET a == IF args.variant = "None" THEN RestoreArgs(FALSE, None) ELSE args
        err == IF handler = "ArrayHandler" THEN ArrayArgsError(args) ELSE None
    IN  /\ Quiescent(l)
        /\ ncalls < MaxCalls
        /\ info[l] # NoInfo
        /\ args \in RestoreArgsOf(handler)
        /\ ncalls' = ncalls + 1
        /\ IF err # None
           THEN /\ call' = [call EXCEPT ![l] =
                              [Idle EXCEPT !.handler = handler, !.op = "deserialize",
                                           !.pc = "raised", !.restore = args,
                                           !.saved = SavedBy(l),
                                           !.error = err]]
                /\ backend' = [backend EXCEPT ![l] = NoBackend]
           ELSE /\ call' = [call EXCEPT ![l] =
                              [Idle EXCEPT !.handler = handler, !.op = "deserialize",
                                           !.pc = "open", !.restore = args,
                                           !.saved = SavedBy(l),
                                           !.tspec = get_cast_tspec_deserialize(info[l].tspec, a)]]
                /\ backend' = [backend EXCEPT ![l] = [NoBackend EXCEPT !.open = "pending"]]
        /\ UNCHANGED <<leaf, info, made, writes, store>>
        /\ UNCHANGED <<regVars, shardVars>>

\* TensorStore completes the pending open, successfully or with an error
BackendOpen(l, ok) ==
    /\ backend[l].open = "pending"
    /\ IF call[l].op = "serialize"
       THEN /\ ok => CanOpenForWrite(call[l].tspec, store[l])
            /\ store' = [store EXCEPT ![l] =
                           IF ok THEN Created(call[l].tspec, store[l]) ELSE store[l]]
       ELSE /\ ok => CanOpenForRead(call[l].tspec, store[l])
            /\ UNCHANGED store
    /\ backend' = [backend EXCEPT ![l].open = IF ok THEN "ok" ELSE "failed"]
    /\ UNCHANGED <<leaf, info, made, call, writes, ncalls>>
    /\ UNCHANGED <<regVars, shardVars>>

\* serialize gone wrong: the error of the open is swallowed and the write is
\* issued all the same
SerializeWriteDespiteFailure(l) ==
    /\ call[l].op = "serialize" /\ call[l].pc = "open"
    /\ backend[l].open \in {"ok", "failed"}
    /\ writes' = Append(writes,
           Write(l, CastElem(call[l].value.elem, RawSpec(call[l].tspec).dtype)))
    /\ call' = [call EXCEPT ![l].pc = "copy", ![l].write = Len(writes) + 1]
    /\ UNCHANGED <<leaf, info, made, backend, store, ncalls>>
    /\ UNCHANGED <<regVars, shardVars>>

\* serialize resumes after "await ts.open(...)": t.write(value) is issued and
\* the coroutine suspends on write_future.copy; a failed open raises
SerializeWrite(l) ==
    /\ call[l].op = "serialize" /\ call[l].pc = "open"
    /\ backend[l].open \in {"ok", "failed"}
    /\ IF backend[l].open = "ok"
       THEN /\ writes' = Append(writes,
                   Write(l, CastElem(call[l].value.elem, RawSpec(call[l].tspec).dtype)))
            /\ call' = [call EXCEPT ![l].pc = "copy", ![l].write = Len(writes) + 1]
       ELSE /\ call' = [call EXCEPT ![l].pc = "raised", ![l].error = "StorageError"]
            /\ UNCHANGED writes
    /\ UNCHANGED <<leaf, info, made, backend, store, ncalls>>
    /\ UNCHANGED <<regVars, shardVars>>

\* TensorStore finishes copying the source buffer of write w
BackendCopy(w, ok) ==
    /\ w \in 1..Len(writes)
    /\ writes[w].copy = "pending"
    /\ writes' = [writes EXCEPT ![w].copy = IF ok THEN "done" ELSE "failed",
                                ![w].commit = IF ok THEN "pending" ELSE "failed"]
    /\ UNCHANGED <<leaf, info, made, call, backend, store, ncalls>>
    /\ UNCHANGED <<regVars, shardVars>>

\* TensorStore commits write w: the data becomes the stored array
BackendCommit(w, ok) ==
    /\ w \in 1..Len(writes)
    /\ writes[w].copy = "done" /\ writes[w].commit = "pending"
    /\ writes' = [writes EXCEPT ![w].commit = IF ok THEN "done" ELSE "failed"]
    /\ store' = [store EXCEPT ![writes[w].leaf].elem =
                    IF ok THEN writes[w].elem ELSE store[writes[w].leaf].elem]
    /\ UNCHANGED <<leaf, info, made, call, backend, ncalls>>
    /\ UNCHANGED <<regVars, shardVars>>

\* serialize gone wrong: the commit handle is returned without awaiting the copy
SerializeReturnEarly(l) ==
    /\ call[l].op = "serialize" /\ call[l].pc = "copy"
    /\ call' = [call EXCEPT ![l].pc = "returned", ![l].commits = <<call[l].write>>]
    /\ UNCHANGED <<leaf, info, made, backend, writes, store, ncalls>>
    /\ UNCHANGED <<regVars, shardVars>>

\* serialize gone wrong: write_future.commit is awaited too before returning
SerializeReturnAfterCommit(l) ==
    /\ call[l].op = "serialize" /\ call[l].pc = "copy"
    /\ writes[call[l].write].copy \in {"done", "failed"}
    /\ writes[call[l].write].commit \in {"done", "failed"}
    /\ IF writes[call[l].write].commit = "done"
       THEN call' = [call EXCEPT ![l].pc = "returned", ![l].commits = <<call[l].write>>]
       ELSE call' = [call EXCEPT ![l].pc = "raised", ![l].error = "StorageError"]
    /\ UNCHANGED <<leaf, info, made, backend, writes, store, ncalls>>
    /\ UNCHANGED <<regVars, shardVars>>

\* serialize resumes after "await write_future.copy" and returns
\* [write_future.commit]; a failed copy raises
SerializeReturn(l) ==
    /\ call[l].op = "serialize" /\ call[l].pc = "copy"
    /\ writes[call[l].write].copy \in {"done", "failed"}
    /\ IF writes[call[l].write].copy = "done"
       THEN call' = [call EXCEPT ![l].pc = "returned", ![l].commits = <<call[l].write>>]
       ELSE call' = [call EXCEPT ![l].pc = "raised", ![l].error = "StorageError"]
    /\ UNCHANGED <<leaf, info, made, backend, writes, store, ncalls>>
    /\ UNCHANGED <<regVars, shardVars>>

\* deserialize resumes after "await ts.open(...)": t.read() is issued; a
\* failed open raises
DeserializeRead(l) ==
    /\ call[l].op = "deserialize" /\ call[l].pc = "open"
    /\ backend[l].open \in {"ok", "failed"}
    /\ IF backend[l].open = "ok"
       THEN /\ call' = [call EXCEPT ![l].pc = "read"]
            /\ backend' = [backend EXCEPT ![l].read = "pending"]
       ELSE /\ call' = [call EXCEPT ![l].pc = "raised", ![l].error = "StorageError"]
            /\ UNCHANGED backend
    /\ UNCHANGED <<leaf, info, made, writes, store, ncalls>>
    /\ UNCHANGED <<regVars, shardVars>>

\* TensorStore completes the pending read, successfully or with an error
BackendRead(l, ok) ==
    /\ backend[l].read = "pending"
    /\ backend' = [backend EXCEPT
                     ![l].read = IF ok THEN "ok" ELSE "failed",
                     ![l].readval = IF ok THEN ReadValue(call[l].tspec, store[l])
                                    ELSE NoValue]
    /\ UNCHANGED <<leaf, info, made, call, writes, store, ncalls>>
    /\ UNCHANGED <<regVars, shardVars>>

\* ScalarHandler.deserialize gone wrong: whatever was read is unwrapped, without
\* the ndim check
RestoredUnchecked(handler, args, arr) ==
    CASE handler = "ScalarHandler" -> [error |-> None, result |-> Item(arr)]
      [] handler = "ArrayHandler" ->
            [error |-> None,
             result |-> [arr EXCEPT !.kind = "GlobalDeviceArray",
                                    !.shape = IF args.global_shape = "shape"
                                              THEN <<1>> ELSE arr.shape]]
      [] OTHER -> [error |-> None, result |-> arr]

\* ScalarHandler.deserialize gone wrong: the 0-d array is returned as it is,
\* without item()
RestoredNoItem(handler, args, arr) ==
    CASE handler = "ScalarHandler" ->
            IF Len(arr.shape) # 0
            THEN [error |-> "ValueError", result |-> NoValue]
            ELSE [error |-> None, result |-> arr]
      [] handler = "ArrayHandler" ->
            [error |-> None,
             result |-> [arr EXCEPT !.kind = "GlobalDeviceArray",
                                    !.shape = IF args.global_shape = "shape"
                                              THEN <<1>> ELSE arr.shape]]
      [] OTHER -> [error |-> None, result |-> arr]

\* what a handler's deserialize does with the array that was read:
\* [error, result]
Restored(handler, args, arr) ==
    CASE handler = "ScalarHandler" ->
            IF Len(arr.shape) # 0
            THEN [error |-> "ValueError", result |-> NoValue]
            ELSE [error |-> None, result |-> Item(arr)]
      [] handler = "ArrayHandler" ->
            [error |-> None,
             result |-> [arr EXCEPT !.kind = "GlobalDeviceArray",
                                    !.shape = IF args.global_shape = "shape"
                                              THEN <<1>> ELSE arr.shape]]
      [] OTHER -> [error |-> None, result |-> arr]

\* deserialize resumes after the read and returns, or raises
DeserializeReturn(l) ==
    LET r == Restored(call[l].handler, call[l].restore, backend[l].readval) IN
    /\ call[l].op = "deserialize" /\ call[l].pc = "read"
    /\ backend[l].read \in {"ok", "failed"}
    /\ IF backend[l].read = "failed"
       THEN call' = [call EXCEPT ![l].pc = "raised", ![l].error = "StorageError"]
       ELSE IF r.error # None
       THEN call' = [call EXCEPT ![l].pc = "raised", ![l].error = r.error]
       ELSE call' = [call EXCEPT ![l].pc = "returned", ![l].result = r.result]
    /\ UNCHANGED <<leaf, info, made, backend, writes, store, ncalls>>
    /\ UNCHANGED <<regVars, shardVars>>

\* one leaf's handler calls, any sequence of them, and the backend's steps
HandlerNext ==
    \/ \E h \in Handlers, v \in PyInts \cup NdArrays \cup GlobalArrays :
          ParamInfo("a", h, v)
    \/ \E x \in SaveArgsSet : SerializeCall("a", x)
    \/ \E h \in Handlers, x \in BaseRestoreArgsSet \cup ArrayRestoreArgsSet :
          DeserializeCall("a", h, x)
    \/ \E ok \in BOOLEAN : BackendOpen("a", ok)
    \/ SerializeWrite("a")
    \/ \E w \in 1..Len(writes), ok \in BOOLEAN : BackendCopy(w, ok)
    \/ \E w \in 1..Len(writes), ok \in BOOLEAN : BackendCommit(w, ok)
    \/ SerializeReturn("a")
    \/ DeserializeRead("a")
    \/ \E ok \in BOOLEAN : BackendRead("a", ok)
    \/ DeserializeReturn("a")

\* a save followed by restores: one ParamInfo, then serialize and deserialize
\* calls of the leaf's own handler made with it, and the backend's steps
RestoreNext ==
    \/ \E h \in Handlers, v \in PyScalars \cup NdArrays \cup GlobalArrays :
          info["a"] = NoInfo /\ ParamInfo("a", h, v)
    \/ \E x \in SaveArgsSet : SerializeCall("a", x)
    \/ \E x \in BaseRestoreArgsSet \cup CastRestoreArgsSet \cup ArrayRestoreArgsSet :
          DeserializeCall("a", leaf["a"].handler, x)
    \/ \E ok \in BOOLEAN : BackendOpen("a", ok)
    \/ SerializeWrite("a")
    \/ \E w \in 1..Len(writes), ok \in BOOLEAN : BackendCopy(w, ok)
    \/ \E w \in 1..Len(writes), ok \in BOOLEAN : BackendCommit(w, ok)
    \/ SerializeReturn("a")
    \/ DeserializeRead("a")
    \/ \E ok \in BOOLEAN : BackendRead("a", ok)
    \/ DeserializeReturn("a")

\* a whole-tree save: every leaf is serialized once, the calls interleave, and
\* the caller awaits the commit handles together at the end
SaveNext ==
    \/ \E l \in Leaves, h \in Handlers, v \in PyScalars \cup NdArrays \cup GlobalArrays :
          info[l] = NoInfo /\ ParamInfo(l, h, v)
    \/ \E l \in Leaves, x \in SaveArgsSet : call[l].pc = "idle" /\ SerializeCall(l, x)
    \/ \E l \in Leaves, ok \in BOOLEAN : BackendOpen(l, ok)
    \/ \E l \in Leaves : SerializeWrite(l)
    \/ \E w \in 1..Len(writes), ok \in BOOLEAN : BackendCopy(w, ok)
    \/ \E w \in 1..Len(writes), ok \in BOOLEAN : BackendCommit(w, ok)
    \/ \E l \in Leaves : SerializeReturn(l)

(***************************************************************************)
(* One sharded array saved by several workers                              *)
(***************************************************************************)
\* the processes that each call ArrayHandler.serialize on the same array
Workers == {"w1", "w2"}

\* the elements of the sharded array; the fill value 0 is not among them
ShardElems == 1..(MaxElem + 1)

\* the path of the sharded array, the same on every worker
ShardPath == "g"

\* the indices of the shards the worker holds: the layout is a function of
\* the index, so the workers' shards are a disjoint cover of the array
LocalShards(w) == {i \in 1..ShardLen : sharding[i] = w}

\* the sharded array as worker w holds it and passes it to its handler: the
\* global shape and dtype, and the data of the shards local to the worker
LocalValue(w) ==
    [kind |-> "GlobalDeviceArray", dtype |-> "float32", shape |-> <<ShardLen>>,
     local_shards |-> [i \in LocalShards(w) |-> global_value[i]]]

NoLocalValue ==
    [kind |-> "None", dtype |-> None, shape |-> << >>, local_shards |-> << >>]

\* ArrayHandler.param_info(directory, name, value): the metadata has the global
\* shape, one chunk per shard (a shard is one element), and no dtype
ShardParamInfoOf(name, value) ==
    ParamInfoRec(name,
        [driver |-> "zarr", path |-> name, dtype |-> None,
         metadata |-> [compressor |-> "gzip", shape |-> value.shape, chunks |-> <<1>>]])

\* a worker's call record: its position, the ParamInfo object it holds, the
\* arguments of its serialize call, the spec it built, the commit futures
\* async_serialize put in commit_futures, and the ones serialize returned
IdleWorker ==
    [pc |-> "idle", info |-> NoInfo, save |-> NoSaveArgs, value |-> NoLocalValue,
     tspec |-> BaseTspec(None, << >>), collected |-> {}, commits |-> {}]

ShardWrite(w, path, i, elem) ==
    [worker |-> w, path |-> path, index |-> i, elem |-> elem, commit |-> "pending"]

\* the writes async_serialize(value, tspec) issues on a worker: one per shard
\* of the value it was passed, at the shard's index of the array at the path of
\* the spec it was passed, the data cast to the spec's stored dtype
DistributedWrite(w, value, tspec) ==
    {ShardWrite(w, RawSpec(tspec).path, i,
                CastElem(value.local_shards[i], RawSpec(tspec).dtype)) :
        i \in DOMAIN value.local_shards}

\* the worker's ArrayHandler.param_info call for the array
ShardParamInfo(w) ==
    /\ worker[w].pc = "idle"
    /\ worker' = [worker EXCEPT ![w].pc = "info",
                                ![w].info = ShardParamInfoOf(ShardPath, LocalValue(w))]
    /\ UNCHANGED <<global_value, sharding, shard_writes, global_store>>
    /\ UNCHANGED <<regVars, ioVars>>

\* ArrayHandler.serialize on a worker up to the call of async_serialize: args
\* default to SaveArgs(), the cast spec is built from the worker's ParamInfo,
\* whose tspec receives the dtype, and commit_futures is empty; no lock is
\* taken. Every worker runs the same save, so the args are the same on all.
ShardSerializeCall(w, args) ==
    LET a == IF args.given THEN args ELSE SaveArgs(None)
        v == LocalValue(w)
    IN  /\ worker[w].pc = "info"
        /\ \A u \in Workers : worker[u].pc \in {"idle", "info"} \/ worker[u].save = args
        /\ worker' = [worker EXCEPT ![w] =
                        [IdleWorker EXCEPT
                            !.pc = "write", !.save = args, !.value = v,
                            !.info = [worker[w].info EXCEPT
                                         !.tspec = CastBaseSerialize(worker[w].info.tspec, v, a)],
                            !.tspec = get_cast_tspec_serialize(worker[w].info.tspec, v, a)]]
        /\ UNCHANGED <<global_value, sharding, shard_writes, global_store>>
        /\ UNCHANGED <<regVars, ioVars>>

\* "await serialization.async_serialize(value, tspec, commit_future=
\* commit_futures)": the array is created under the spec's dtype if it is not
\* there, the writes of the value's shards are issued through the spec, and
\* their commit futures are put in commit_futures
ShardSerializeWrite(w) ==
    LET issued == DistributedWrite(w, worker[w].value, worker[w].tspec) IN
    /\ worker[w].pc = "write"
    /\ global_store.dtype \in {None, RawSpec(worker[w].tspec).dtype}
    /\ global_store' = [global_store EXCEPT !.dtype = RawSpec(worker[w].tspec).dtype]
    /\ shard_writes' = shard_writes \cup issued
    /\ worker' = [worker EXCEPT ![w].pc = "copy",
                                ![w].collected = {x.index : x \in issued}]
    /\ UNCHANGED <<global_value, sharding>>
    /\ UNCHANGED <<regVars, ioVars>>

\* TensorStore commits one shard write: its data becomes the stored element
ShardCommit(x) ==
    /\ x \in shard_writes /\ x.commit = "pending"
    /\ shard_writes' = (shard_writes \ {x}) \cup {[x EXCEPT !.commit = "done"]}
    /\ global_store' = [global_store EXCEPT !.elems[x.index] = x.elem]
    /\ UNCHANGED <<global_value, sharding, worker>>
    /\ UNCHANGED <<regVars, ioVars>>

\* ArrayHandler.serialize gone wrong: a new empty list is returned instead of
\* the commit_futures list that async_serialize filled
ShardSerializeReturnEmpty(w) ==
    /\ worker[w].pc = "copy"
    /\ worker' = [worker EXCEPT ![w].pc = "returned", ![w].commits = {}]
    /\ UNCHANGED <<global_value, sharding, shard_writes, global_store>>
    /\ UNCHANGED <<regVars, ioVars>>

\* async_serialize has copied the worker's shards and serialize resumes:
\* "return commit_futures", the futures completed or not
ShardSerializeReturn(w) ==
    /\ worker[w].pc = "copy"
    /\ worker' = [worker EXCEPT ![w].pc = "returned", ![w].commits = worker[w].collected]
    /\ UNCHANGED <<global_value, sharding, shard_writes, global_store>>
    /\ UNCHANGED <<regVars, ioVars>>

\* the workers' param_info and serialize calls on the one array and the
\* backend's commits, in any interleaving
ShardNext ==
    \/ \E w \in Workers : ShardParamInfo(w)
    \/ \E w \in Workers, x \in SaveArgsSet : ShardSerializeCall(w, x)
    \/ \E w \in Workers : ShardSerializeWrite(w)
    \/ \E x \in shard_writes : ShardCommit(x)
    \/ \E w \in Workers : ShardSerializeReturn(w)

(***************************************************************************)
(* Initial state and specifications                                        *)
(***************************************************************************)
vars == <<registry, jax_array, last, leaf, info, made, call, backend, writes, store, ncalls,
          global_value, sharding, worker, shard_writes, global_store>>

\* no handler call made yet, nothing stored
HandlerInit ==
    /\ leaf = [l \in Leaves |-> [handler |-> None, value |-> NoValue]]
    /\ info = [l \in Leaves |-> NoInfo]
    /\ made = [l \in Leaves |-> NoInfo]
    /\ call = [l \in Leaves |-> Idle]
    /\ backend = [l \in Leaves |-> NoBackend]
    /\ writes = << >>
    /\ store = [l \in Leaves |-> NoArray]
    /\ ncalls = 0

\* no sharded array being saved
ShardIdle ==
    /\ global_value = << >>
    /\ sharding = << >>
    /\ worker = [w \in Workers |-> IdleWorker]
    /\ shard_writes = {}
    /\ global_store = [dtype |-> None, elems |-> << >>]

\* the module as imported: the default registry, either setting of the
\* jax_array flag
RegistryInit ==
    /\ registry = DefaultRegistry
    /\ jax_array \in BOOLEAN
    /\ last = NoCall
    /\ HandlerInit
    /\ ShardIdle

\* the state the handler calls start from: the default registry, which they
\* never touch
Init ==
    /\ registry = DefaultRegistry
    /\ jax_array = FALSE
    /\ last = NoCall
    /\ HandlerInit
    /\ ShardIdle

\* a sharded array of any content and any layout over the workers, nothing
\* written at its path, where every element reads as the fill value, and no
\* worker having called its handler yet
ShardInit ==
    /\ registry = DefaultRegistry
    /\ jax_array = FALSE
    /\ last = NoCall
    /\ HandlerInit
    /\ global_value \in [1..ShardLen -> ShardElems]
    /\ sharding \in [1..ShardLen -> Workers]
    /\ worker = [w \in Workers |-> IdleWorker]
    /\ shard_writes = {}
    /\ global_store = [dtype |-> None, elems |-> [i \in 1..ShardLen |-> 0]]

RegistryNext ==
    \/ \E ty \in Types : Resolve(ty)
    \/ \E ty \in RegTypes, h \in UserHandlers, f \in {NoFunc} \cup CustomFuncs, o \in BOOLEAN :
          Register(ty, h, f, o)

\* the registry alone: register_type_handler and get_type_handler calls
RegistrySpec == RegistryInit /\ [][RegistryNext]_vars

\* the handlers alone: param_info, serialize and deserialize calls on one
\* leaf, interleaved with the backend completing what they issued
HandlerSpec == Init /\ [][HandlerNext]_vars

\* the save pipeline: the leaves of one tree serialized concurrently
SaveSpec == Init /\ [][SaveNext]_vars

\* a value saved and then restored through the ParamInfo it was saved with
RestoreSpec == Init /\ [][RestoreNext]_vars

\* one sharded array serialized by all the workers concurrently
ShardSpec == ShardInit /\ [][ShardNext]_vars

(***************************************************************************)
(* Registry claims                                                         *)
(***************************************************************************)
\* positions of the entries of reg whose predicate accepts ty
Matching(reg, ty) == {i \in 1..Len(reg) : Accepts(reg[i].func, ty, jax_array)}

Earliest(S) == CHOOSE i \in S : \A j \in S : i <= j

\* C1: in every reachable registry, a resolve that finds a match returns the
\* handler of the earliest-registered entry whose predicate accepts the type.
C1_FirstMatchWins ==
    (last.op = "resolve" /\ Matching(registry, last.ty) # {}) =>
        /\ last.outcome = "ok"
        /\ last.handler = registry[Earliest(Matching(registry, last.ty))].handler

\* a predicate for the subtype MyStr was registered before a predicate for its
\* supertype, both accept MyStr, and resolve(MyStr) returned the first one's handler
C1_Witness ==
    /\ last.op = "resolve" /\ last.ty = "MyStr"
    /\ \E i, j \in Len(DefaultRegistry) + 1 .. Len(registry) :
          /\ i < j
          /\ registry[i].func = SubclassFunc("MyStr", FALSE)
          /\ registry[j].func \in {SubclassFunc("str", FALSE), SubclassFunc("object", FALSE)}
          /\ registry[i].handler # registry[j].handler
          /\ last.handler = registry[i].handler

\* C2 (as claimed): register with override=True of an already resolvable type
\* succeeds, and resolving that type afterwards returns the new handler.
C2_OverrideTakesEffect ==
    (last.op = "register" /\ last.override /\ Matching(last.before, last.ty) # {}) =>
        /\ last.outcome = "ok"
        /\ GetTypeHandler(registry, last.ty, jax_array) = last.handler

\* C3: register with override=False of a type some handler already resolves
\* for raises ValueError and leaves the registry as it was.
C3_DuplicateRejected ==
    (last.op = "register" /\ ~last.override /\ Matching(last.before, last.ty) # {}) =>
        /\ last.outcome = "ValueError"
        /\ registry = last.before

\* a duplicate registration was rejected in a registry that already holds a
\* caller-registered entry
C3_Witness ==
    /\ last.op = "register" /\ ~last.override
    /\ Matching(last.before, last.ty) # {}
    /\ Len(last.before) > Len(DefaultRegistry)
    /\ last.outcome = "ValueError"

\* C10: resolve of a type no entry accepts raises ValueError, returns no
\* handler and leaves the registry unchanged.
C10_UnknownTypeFails ==
    (last.op = "resolve" /\ Matching(last.before, last.ty) = {}) =>
        /\ last.outcome = "ValueError"
        /\ last.handler = NoHandler
        /\ registry = last.before

\* an unknown type was looked up in a registry that holds a caller-registered entry
C10_Witness ==
    /\ last.op = "resolve" /\ last.ty = "str"
    /\ Len(registry) > Len(DefaultRegistry)
    /\ Matching(registry, "str") = {}
    /\ last.outcome = "ValueError"

\* C16: the registry is append-only: a register call that raises leaves it as
\* it was, one that succeeds adds exactly one entry, the caller's handler, at
\* the end and keeps every earlier entry in place; resolve never modifies it.
C16_AppendOnly ==
    /\ last.op = "resolve" => registry = last.before
    /\ (last.op = "register" /\ last.outcome = "ValueError") => registry = last.before
    /\ (last.op = "register" /\ last.outcome = "ok") =>
          /\ Len(registry) = Len(last.before) + 1
          /\ SubSeq(registry, 1, Len(last.before)) = last.before
          /\ registry[Len(registry)].handler = last.handler
    /\ SubSeq(registry, 1, Len(DefaultRegistry)) = DefaultRegistry

\* an override registration of a type that already resolved went through, on
\* top of an earlier registration
C16_Witness ==
    /\ last.op = "register" /\ last.override /\ last.outcome = "ok"
    /\ Matching(last.before, last.ty) # {}
    /\ Len(last.before) > Len(DefaultRegistry)

\* C17: a type that resolves to a handler keeps resolving to that handler
\* through every later register call, whatever its predicate and override.
C17_ResolutionStable ==
    \A ty \in Types :
        (last.op = "register" /\ GetTypeHandler(last.before, ty, jax_array) # NoHandler) =>
            GetTypeHandler(registry, ty, jax_array) = GetTypeHandler(last.before, ty, jax_array)

\* an entry accepting bool was added with override=True and with a custom
\* predicate, and bool still resolves to the first default entry's handler
C17_Witness ==
    /\ last.op = "register" /\ last.outcome = "ok" /\ last.override
    /\ last.func # NoFunc
    /\ \E i \in Len(DefaultRegistry) + 1 .. Len(registry) :
          Accepts(registry[i].func, "bool", jax_array)
    /\ GetTypeHandler(registry, "bool", jax_array) = DefaultRegistry[1].handler

\* C18: for a type that does not resolve, register with the default predicate
\* and override=False succeeds, and the type then resolves to the new handler.
C18_RegisterThenResolve ==
    (/\ last.op = "register" /\ last.func = NoFunc /\ ~last.override
     /\ Matching(last.before, last.ty) = {}) =>
        /\ last.outcome = "ok"
        /\ GetTypeHandler(registry, last.ty, jax_array) = last.handler

\* str did not resolve, was registered with the defaults in a registry that
\* already held a caller's entry, and now resolves to the new handler
C18_Witness ==
    /\ last.op = "register" /\ last.ty = "str" /\ last.func = NoFunc /\ ~last.override
    /\ Len(last.before) > Len(DefaultRegistry)
    /\ Matching(last.before, "str") = {}
    /\ GetTypeHandler(registry, "str", jax_array) = last.handler

(***************************************************************************)
(* Handler claims                                                          *)
(***************************************************************************)
\* C4 (as claimed): a ParamInfo stays as param_info returned it through every
\* serialize and deserialize call it is passed to.
C4_DescriptorUnmodified == \A l \in Leaves : info[l] = made[l]

DenseHandlers == {"NumpyHandler", "ScalarHandler"}

\* C5: in NumpyHandler.serialize the open has completed when the write is
\* issued, the write's copy has completed when serialize returns, and what it
\* returns is one handle: the commit of the write this call issued.
C5_CopyBeforeReturn ==
    \A l \in Leaves :
        (call[l].op = "serialize" /\ call[l].handler \in DenseHandlers) =>
            /\ call[l].write # 0 =>
                  /\ backend[l].open = "ok"
                  /\ writes[call[l].write].leaf = l
            /\ call[l].pc = "returned" =>
                  /\ call[l].write # 0
                  /\ writes[call[l].write].copy = "done"
                  /\ call[l].commits = <<call[l].write>>

\* a dense serialize returned its commit handle, still pending, while the other
\* leaf's write had been issued before its own
C5_Witness ==
    /\ call["a"].op = "serialize" /\ call["a"].handler = "NumpyHandler"
    /\ call["a"].pc = "returned"
    /\ call["a"].write = 2 /\ call["b"].write = 1
    /\ writes[2].commit = "pending"

\* C6: serialize does not wait for the commit: once the copy is done its
\* return is enabled whatever the state of the commit.
C6_ReturnNeedsNoCommit ==
    \A l \in Leaves :
        (/\ call[l].op = "serialize" /\ call[l].pc = "copy"
         /\ writes[call[l].write].copy = "done") => ENABLED SerializeReturn(l)

\* every leaf's serialize has returned and no commit has completed yet: one
\* leaf is dense, the other sharded
C6_Witness ==
    /\ call["a"].handler = "NumpyHandler" /\ call["b"].handler = "ArrayHandler"
    /\ \A l \in Leaves : call[l].op = "serialize" /\ call[l].pc = "returned"
    /\ Len(writes) = 2
    /\ \A w \in 1..Len(writes) : writes[w].commit = "pending"

\* C7 (as claimed): a deserialize with lazy=True issues no open and no read,
\* and what it returns is a deferred handle.
C7_LazyDefersIO ==
    \A l \in Leaves :
        (call[l].op = "deserialize" /\ call[l].restore.lazy) =>
            /\ backend[l].open = "none"
            /\ backend[l].read = "none"
            /\ call[l].pc = "returned" => call[l].result.kind = "LazyArray"

\* C8: ArrayHandler.deserialize raises ValueError when args is None or when
\* mesh or mesh_axes of the ArrayRestoreArgs is None, whatever lazy, dtype and
\* global_shape are, and nothing is asked of the backend.
C8_ShardedRestoreNeedsMesh ==
    \A l \in Leaves :
        (/\ call[l].op = "deserialize" /\ call[l].handler = "ArrayHandler"
         /\ \/ call[l].restore.variant = "None"
            \/ /\ call[l].restore.variant = "ArrayRestoreArgs"
               /\ (call[l].restore.mesh = None \/ call[l].restore.mesh_axes = None)) =>
            /\ call[l].pc = "raised"
            /\ call[l].error = "ValueError"
            /\ backend[l].open = "none"
            /\ backend[l].read = "none"

\* the call was rejected for its missing mesh_axes alone, with every other
\* option set
C8_Witness ==
    /\ call["a"].op = "deserialize" /\ call["a"].handler = "ArrayHandler"
    /\ call["a"].restore = ArrayRestoreArgs(TRUE, "bfloat16", "mesh", None, "shape")
    /\ store["a"] # NoArray
    /\ call["a"].pc = "raised" /\ call["a"].error = "ValueError"

\* C9: ScalarHandler.deserialize raises ValueError exactly when the array the
\* dense read returned has a non-zero number of dimensions; otherwise it
\* returns the plain number the array holds.
C9_ScalarShapeCheck ==
    \A l \in Leaves :
        (/\ call[l].op = "deserialize" /\ call[l].handler = "ScalarHandler"
         /\ call[l].pc \in {"returned", "raised"}) =>
            /\ (call[l].pc = "raised" /\ call[l].error = "ValueError")
                   <=> (backend[l].read = "ok" /\ Len(backend[l].readval.shape) # 0)
            /\ call[l].pc = "returned" =>
                  /\ call[l].result.kind \in {"int", "float"}
                  /\ call[l].result.shape = << >>
                  /\ call[l].result.elem = backend[l].readval.elem

\* a 1-element array written by NumpyHandler was read back through
\* ScalarHandler, which rejected it
C9_Witness ==
    /\ call["a"].op = "deserialize" /\ call["a"].handler = "ScalarHandler"
    /\ leaf["a"].handler = "NumpyHandler"
    /\ store["a"].shape = <<1>>
    /\ backend["a"].read = "ok" /\ backend["a"].readval.elem = 1
    /\ call["a"].pc = "raised" /\ call["a"].error = "ValueError"

\* C11: for a Python number or a dense array v, param_info, serialize with
\* default args, the commit handle completed, then deserialize with default
\* args by the same handler through the same ParamInfo returns a value equal
\* to v.
C11_RoundTrip ==
    \A l \in Leaves :
        (/\ call[l].op = "deserialize" /\ call[l].pc = "returned"
         /\ call[l].handler \in DenseHandlers /\ call[l].handler = leaf[l].handler
         /\ call[l].restore \in {NoRestoreArgs, RestoreArgs(FALSE, None)}
         /\ call[l].saved.committed
         /\ call[l].saved.dtype = None) =>
            call[l].result = leaf[l].value

\* the Python float 1 went through ScalarHandler's serialize, its commit, and
\* ScalarHandler's deserialize, all with args=None
C11_Witness ==
    /\ leaf["a"] = [handler |-> "ScalarHandler", value |-> Value("float", None, << >>, 1)]
    /\ call["a"].op = "deserialize" /\ call["a"].pc = "returned"
    /\ call["a"].handler = "ScalarHandler"
    /\ call["a"].restore = NoRestoreArgs
    /\ call["a"].saved.committed /\ call["a"].saved.dtype = None
    /\ call["a"].result.elem = 1

\* C12: after a serialize with SaveArgs(dtype=T) whose commit completed, a
\* deserialize by the same handler with no dtype returns data of dtype T, and
\* one with dtype=T returns the same: dtype T and the element the stored
\* array holds, the value cast to T. ScalarHandler unwraps it to a Python
\* float.
C12_CastIdempotent ==
    \A l \in Leaves :
        (/\ call[l].op = "deserialize" /\ call[l].pc = "returned"
         /\ call[l].handler = leaf[l].handler
         /\ call[l].saved.committed
         /\ call[l].saved.dtype # None
         /\ call[l].restore.dtype \in {None, call[l].saved.dtype}) =>
            /\ store[l].dtype = call[l].saved.dtype
            /\ backend[l].readval.dtype = call[l].saved.dtype
            /\ call[l].result.elem = CastElem(leaf[l].value.elem, call[l].saved.dtype)
            /\ call[l].result.dtype =
                  IF call[l].handler = "ScalarHandler" THEN None
                  ELSE call[l].saved.dtype
            /\ call[l].handler = "ScalarHandler" => call[l].result.kind = "float"

\* a float32 array holding 1 was saved as bfloat16 and read back with
\* dtype=bfloat16 through the cast envelope: bfloat16, holding 0
C12_Witness ==
    /\ leaf["a"].handler = "NumpyHandler" /\ leaf["a"].value.elem = 1
    /\ call["a"].op = "deserialize" /\ call["a"].pc = "returned"
    /\ call["a"].saved.committed /\ call["a"].saved.dtype = "bfloat16"
    /\ call["a"].restore.dtype = "bfloat16"
    /\ call["a"].tspec.driver = "cast"
    /\ call["a"].result.dtype = "bfloat16" /\ call["a"].result.elem = 0

\* the dtype a worker's serialize call stores the array under
SaveTarget(w) ==
    IF worker[w].save.dtype = None THEN "float32" ELSE worker[w].save.dtype

\* the element of the global value at index i as its owner's call stores it
StoredGlobal(i) == CastElem(global_value[i], SaveTarget(sharding[i]))

\* C13: the workers serialize one sharded array concurrently, without locks.
\* Under every interleaving of their calls and of the commits, an element of
\* the stored array is the fill value until a write of the worker that owns it
\* is committed and the global value's element from then on, and no write
\* lands on an element of another worker's shard; once every worker has
\* returned and the commit futures the workers returned have completed, the
\* stored array equals the global value (cast to the dtype the save asked
\* for, when it asked for one).
C13_ShardWritesDisjoint ==
    /\ \A x \in shard_writes : sharding[x.index] = x.worker /\ x.path = ShardPath
    /\ \A i \in DOMAIN global_store.elems :
          global_store.elems[i] =
              IF \E x \in shard_writes : x.index = i /\ x.commit = "done"
              THEN StoredGlobal(i) ELSE 0
    /\ (/\ \A w \in Workers : worker[w].pc = "returned"
        /\ \A x \in shard_writes :
              x.index \in worker[x.worker].commits => x.commit = "done") =>
           /\ \A i \in 1..ShardLen : global_store.elems[i] = StoredGlobal(i)
           /\ \A w \in Workers :
                 /\ global_store.dtype = SaveTarget(w)
                 /\ worker[w].save.dtype = None => global_store.elems = global_value

\* both workers hold a shard and saved with default args, both have returned,
\* and the commit futures they returned have completed: the stored array is
\* the global value
C13_Witness ==
    /\ LocalShards("w1") # {} /\ LocalShards("w2") # {}
    /\ \A w \in Workers : worker[w].pc = "returned" /\ worker[w].save = NoSaveArgs
    /\ \A w \in Workers : worker[w].commits = LocalShards(w)
    /\ \A x \in shard_writes : x.commit = "done"
    /\ Cardinality(shard_writes) = ShardLen
    /\ global_store.elems = global_value

\* the dtype a serialize call's args ask for, None when they ask for none
SaveDType(l) == call[l].save.dtype

\* C14 (as claimed): the spec serialize hands to the backend is the cast
\* envelope whose inner base.dtype is the value's dtype and whose outer dtype is
\* the requested dtype, both being the value's dtype when none is requested.
C14_InnerSourceOuterTarget ==
    \A l \in Leaves :
        call[l].op = "serialize" =>
            /\ call[l].tspec.driver = "cast"
            /\ call[l].tspec.base.dtype = call[l].value.dtype
            /\ call[l].tspec.dtype =
                  IF SaveDType(l) = None THEN call[l].value.dtype ELSE SaveDType(l)

\* C14 (amended): the spec serialize hands to the backend is the cast envelope
\* around the descriptor's spec; its outer dtype is always the value's dtype and
\* its inner base.dtype is the requested dtype, or the value's dtype when none
\* is requested.
C14_InnerTargetOuterSource ==
    \A l \in Leaves :
        call[l].op = "serialize" =>
            /\ call[l].tspec.driver = "cast"
            /\ call[l].tspec.dtype = call[l].value.dtype
            /\ call[l].tspec.base.dtype =
                  IF SaveDType(l) = None THEN call[l].value.dtype ELSE SaveDType(l)
            /\ [call[l].tspec.base EXCEPT !.dtype = None] = made[l].tspec

\* a Python int is being serialized by ScalarHandler with a cast to bfloat16
C14_Witness ==
    /\ call["a"].op = "serialize" /\ call["a"].handler = "ScalarHandler"
    /\ SaveDType("a") = "bfloat16"
    /\ call["a"].value.dtype = "int64"
    /\ call["a"].tspec.base.dtype = "bfloat16" /\ call["a"].tspec.dtype = "int64"

\* C15: deserialize hands the backend the descriptor's spec as it stands when
\* no dtype is requested, and exactly {base: that spec, driver: cast, dtype: T}
\* when dtype T is requested; no step of a deserialize call changes the
\* descriptor's spec.
C15_CastSpecDeserialize ==
    [][\A l \in Leaves :
          call'[l].op = "deserialize" =>
              /\ info'[l] = info[l]
              /\ backend'[l].open # "none" =>
                    call'[l].tspec =
                        IF call'[l].restore.dtype = None THEN info[l].tspec
                        ELSE CastTspec(info[l].tspec, call'[l].restore.dtype)]_vars

\* a deserialize with a cast to bfloat16 read the array back through the
\* envelope around a descriptor spec that a serialize had given a dtype
C15_Witness ==
    /\ call["a"].op = "deserialize" /\ call["a"].restore.dtype = "bfloat16"
    /\ info["a"].tspec.dtype = "bfloat16"
    /\ call["a"].tspec = CastTspec(info["a"].tspec, "bfloat16")
    /\ call["a"].pc = "returned"

\* C19 (as claimed): ArrayHandler.deserialize given a plain RestoreArgs, which
\* has no mesh and no mesh_axes field, raises ValueError as it does for
\* args=None, and asks nothing of the backend.
C19_BaseArgsValueError ==
    \A l \in Leaves :
        (/\ call[l].op = "deserialize" /\ call[l].handler = "ArrayHandler"
         /\ call[l].restore.variant = "RestoreArgs") =>
            /\ call[l].pc = "raised"
            /\ call[l].error = "ValueError"
            /\ backend[l].open = "none"
            /\ backend[l].read = "none"

\* the writes a leaf's serialize has issued
WritesOf(l) == {w \in 1..Len(writes) : writes[w].leaf = l}

\* C20: a dense serialize whose open fails issues no write; one whose open or
\* copy fails raises the backend's error and returns no commit handle; a failed
\* commit never makes serialize raise, the call returns its handle; nothing is
\* issued twice.
C20_FailureSurfaces ==
    \A l \in Leaves :
        (call[l].op = "serialize" /\ call[l].handler \in DenseHandlers) =>
            /\ backend[l].open = "failed" =>
                  /\ call[l].write = 0 /\ WritesOf(l) = {}
                  /\ call[l].pc \in {"open", "raised"}
            /\ (call[l].write # 0 /\ writes[call[l].write].copy = "failed") =>
                  call[l].pc \in {"copy", "raised"}
            /\ call[l].pc = "raised" =>
                  /\ call[l].error = "StorageError"
                  /\ call[l].commits = << >>
                  /\ \/ backend[l].open = "failed"
                     \/ writes[call[l].write].copy = "failed"
            /\ call[l].pc = "returned" =>
                  /\ backend[l].open = "ok"
                  /\ writes[call[l].write].copy = "done"
            /\ Cardinality(WritesOf(l)) <= 1

\* one dense serialize raised for its failed open, the other returned its
\* handle and the commit behind it failed afterwards
C20_Witness ==
    /\ \A l \in Leaves : call[l].op = "serialize" /\ call[l].handler \in DenseHandlers
    /\ call["a"].pc = "raised" /\ backend["a"].open = "failed"
    /\ call["b"].pc = "returned" /\ writes[call["b"].write].commit = "failed"

====
